---- MODULE Spec2Model ----
(***************************************************************************)
(* Model of src/app.py: the conference booking service.  The four module   *)
(* level dicts (conferences, users, bookings, waitlists) are the state;    *)
(* each Flask view function is one action.  uuid4() is a fresh-id counter, *)
(* datetime.utcnow() is the clock `now`, counted in hours.                 *)
(*                                                                         *)
(* Spec     : every request runs to completion before the next starts.     *)
(* SpecConc : book_conference and confirm_waitlist_booking run on two      *)
(*            worker threads, interleaved statement by statement (the      *)
(*            code takes no lock and app.run serves threaded), with        *)
(*            cancel_booking requests arriving in between.                 *)
(***************************************************************************)
EXTENDS Integers, Sequences, FiniteSets, TLC

\* ---------------------------------------------------------------- bounds
UserIds == {"A", "B"}
ConfNames == {"c1", "c2"}
MaxCap == 2                     \* largest available_slots a conference is registered with
MaxIds == 4                     \* uuid4() values drawn in one run
MaxNow == 2                     \* the clock runs 0..MaxNow hours
MaxSlots == 3                   \* cancel_booking stops raising available_slots here
Threads == {"t1", "t2"}

\* timedelta(hours=1): the confirmation window, in clock units
Hour == 1

\* longest waitlist queue process_waitlist is run on
MaxQueue == 3

Ids == 1..MaxIds
NoId == 0

VARIABLES
    users,        \* set of registered UserIDs            (dict users, keys)
    conferences,  \* name -> [available_slots, waitlist]  (dict conferences)
    bookings,     \* booking id -> [UserID, Conference]   (dict bookings)
    waitlists,    \* waitlist id -> [UserID, Conference, timestamp]
    now,          \* datetime.utcnow()
    nextId,       \* number of uuid4() values drawn so far
    response,     \* what the last request returned
    capacity,     \* history: name -> available_slots given at registration
    cancelled,    \* history: ids on which cancel_booking has returned 200
    pc,           \* thread -> statement it is at ("idle" between requests)
    loc           \* thread -> the request's local variables

stores == <<users, conferences, bookings, waitlists>>
hist == <<capacity, cancelled>>
threads == <<pc, loc>>
vars == <<users, conferences, bookings, waitlists, now, nextId, response,
          capacity, cancelled, pc, loc>>

NoLoc == [UserID |-> "", Conference |-> "", id |-> NoId, new |-> NoId, slots |-> 0]

Resp(op, outcome, id, new, u, c) ==
    [op |-> op, outcome |-> outcome, id |-> id, new |-> new,
     UserID |-> u, Conference |-> c]

\* ------------------------------------------------------------ dict helpers
\* d[k] = v on a dict
Put(d, k, v) == [x \in DOMAIN d \cup {k} |-> IF x = k THEN v ELSE d[x]]

\* del d[k] / d.pop(k)
Del(d, k) == [x \in DOMAIN d \ {k} |-> d[x]]

\* list.remove(x) left out: the list as it was
ListRemoveKeep(s, x) == s

\* list.remove(x): drops the first occurrence
RECURSIVE ListRemove(_, _)
ListRemove(s, x) ==
    IF s = <<>> THEN <<>>
    ELSE IF Head(s) = x THEN Tail(s)
    ELSE <<Head(s)>> \o ListRemove(Tail(s), x)

InList(s, x) == \E i \in 1..Len(s) : s[i] = x

\* the scan of book_conference: a booking of this user for this conference
HasBooking(bks, u, c) ==
    \E b \in DOMAIN bks : bks[b].UserID = u /\ bks[b].Conference = c

\* now - entry["timestamp"] > timedelta(hours=1)
PastWindow(t, entry) == t - entry.timestamp > Hour

Init ==
    /\ users = {}
    /\ conferences = <<>>
    /\ bookings = <<>>
    /\ waitlists = <<>>
    /\ now = 0
    /\ nextId = 0
    /\ response = Resp("none", "none", NoId, NoId, "", "")
    /\ capacity = <<>>
    /\ cancelled = {}
    /\ pc = [t \in Threads |-> "idle"]
    /\ loc = [t \in Threads |-> NoLoc]

\* ------------------------------------------------------- process_waitlist
\* A Python value handed to process_waitlist: a str (a conference name) or
\* a dict (a conference record).  dict.get raises TypeError on a dict key.
StrValue(c) == [type |-> "str", of |-> c]
DictValue(c) == [type |-> "dict", of |-> c]

\* The while loop of process_waitlist (lines 220-249) on conference c, as a
\* state transformer over [conferences, bookings, waitlists, nextId].
RECURSIVE PromoteLoop(_, _, _)
PromoteLoop(st, c, t) ==
    LET conf == st.conferences[c] IN
    IF ~(conf.available_slots > 0 /\ conf.waitlist # <<>>) THEN st
    ELSE
        LET waitlist_id == Head(conf.waitlist)
            popped == Tail(conf.waitlist)
        IN
        IF waitlist_id \in DOMAIN st.waitlists
              /\ PastWindow(t, st.waitlists[waitlist_id])
        THEN
            LET booking_id == st.nextId + 1 IN
            PromoteLoop(
                [conferences |->
                    [st.conferences EXCEPT ![c] =
                        [available_slots |-> conf.available_slots - 1,
                         waitlist |-> popped]],
                 bookings |->
                    Put(st.bookings, booking_id,
                        [UserID |-> st.waitlists[waitlist_id].UserID,
                         Conference |-> c]),
                 waitlists |-> Del(st.waitlists, waitlist_id),
                 nextId |-> booking_id],
                c, t)
        ELSE
            [st EXCEPT !.conferences[c].waitlist = Append(popped, waitlist_id)]

\* process_waitlist(arg): [raised, st].  conferences.get(arg) raises
\* TypeError (unhashable type) when arg is a dict; an unknown name returns.
ProcessWaitlist(arg, st, t) ==
    IF arg.type = "dict" THEN [raised |-> TRUE, st |-> st]
    ELSE IF arg.of \notin DOMAIN st.conferences THEN [raised |-> FALSE, st |-> st]
    ELSE [raised |-> FALSE, st |-> PromoteLoop(st, arg.of, t)]

\* ------------------------------------------------------------- requests
\* add_user.  validate_user (field syntax) is taken to pass.
RegisterUser(u) ==
    /\ IF u \in users
       THEN /\ response' = Resp("add_user", "DuplicateUser", NoId, NoId, u, "")
            /\ UNCHANGED users
       ELSE /\ users' = users \cup {u}
            /\ response' = Resp("add_user", "ok", NoId, NoId, u, "")
    /\ UNCHANGED <<conferences, bookings, waitlists, now, nextId, hist, threads>>

\* add_conference without the existence test of lines 101-103: a second
\* registration stores a fresh record over the old one
RegisterConferenceOverwrite(c, slots) ==
    /\ IF slots <= 0
       THEN /\ response' = Resp("add_conference", "InvalidSpec", NoId, NoId, "", c)
            /\ UNCHANGED <<conferences, capacity>>
       ELSE /\ conferences' = Put(conferences, c,
                                  [available_slots |-> slots, waitlist |-> <<>>])
            /\ capacity' = Put(capacity, c, slots)
            /\ response' = Resp("add_conference",
                                IF c \in DOMAIN conferences
                                THEN "DuplicateConference" ELSE "ok",
                                NoId, NoId, "", c)
    /\ UNCHANGED <<users, bookings, waitlists, now, nextId, cancelled, threads>>

\* add_conference.  Of validate_conference only the available_slots > 0
\* test (line 64) is modelled; the field-syntax tests are taken to pass.
RegisterConference(c, slots) ==
    /\ IF slots <= 0
       THEN /\ response' = Resp("add_conference", "InvalidSpec", NoId, NoId, "", c)
            /\ UNCHANGED <<conferences, capacity>>
       ELSE IF c \in DOMAIN conferences
       THEN /\ response' = Resp("add_conference", "DuplicateConference", NoId, NoId, "", c)
            /\ UNCHANGED <<conferences, capacity>>
       ELSE /\ conferences' = Put(conferences, c,
                                  [available_slots |-> slots, waitlist |-> <<>>])
            /\ capacity' = Put(capacity, c, slots)
            /\ response' = Resp("add_conference", "ok", NoId, NoId, "", c)
    /\ UNCHANGED <<users, bookings, waitlists, now, nextId, cancelled, threads>>

\* book_conference with the slot test of line 141 and the append of line
\* 148 open to change: full(n) is the test that sends the request to the
\* waitlist, append says whether the new id is put on the queue.
BookConferenceVariant(u, c, full(_), append) ==
    /\ IF c \notin DOMAIN conferences
       THEN /\ response' = Resp("book", "ConferenceNotFound", NoId, NoId, u, c)
            /\ UNCHANGED <<conferences, bookings, waitlists, nextId>>
       ELSE IF u \notin users
       THEN /\ response' = Resp("book", "UserNotFound", NoId, NoId, u, c)
            /\ UNCHANGED <<conferences, bookings, waitlists, nextId>>
       ELSE IF HasBooking(bookings, u, c)
       THEN /\ response' = Resp("book", "DuplicateBooking", NoId, NoId, u, c)
            /\ UNCHANGED <<conferences, bookings, waitlists, nextId>>
       ELSE IF full(conferences[c].available_slots)
       THEN /\ nextId < MaxIds
            /\ nextId' = nextId + 1
            /\ waitlists' = Put(waitlists, nextId',
                                [UserID |-> u, Conference |-> c, timestamp |-> now])
            /\ conferences' = IF append
                              THEN [conferences EXCEPT
                                      ![c].waitlist = Append(@, nextId')]
                              ELSE conferences
            /\ response' = Resp("book", "WaitlistId", NoId, nextId', u, c)
            /\ UNCHANGED bookings
       ELSE /\ nextId < MaxIds
            /\ nextId' = nextId + 1
            /\ bookings' = Put(bookings, nextId', [UserID |-> u, Conference |-> c])
            /\ conferences' = [conferences EXCEPT ![c].available_slots = @ - 1]
            /\ response' = Resp("book", "BookingId", NoId, nextId', u, c)
            /\ UNCHANGED waitlists
    /\ UNCHANGED <<users, now, hist, threads>>

\* line 141 written `< 0`: a request at available_slots = 0 still books
BookConferenceOffByOne(u, c) ==
    BookConferenceVariant(u, c, LAMBDA n : n < 0, TRUE)

\* line 148 left out: the waitlist entry is stored but never queued
BookConferenceNoAppend(u, c) ==
    BookConferenceVariant(u, c, LAMBDA n : n <= 0, FALSE)

\* book_conference, run without interruption.
BookConference(u, c) ==
    /\ IF c \notin DOMAIN conferences
       THEN /\ response' = Resp("book", "ConferenceNotFound", NoId, NoId, u, c)
            /\ UNCHANGED <<conferences, bookings, waitlists, nextId>>
       ELSE IF u \notin users
       THEN /\ response' = Resp("book", "UserNotFound", NoId, NoId, u, c)
            /\ UNCHANGED <<conferences, bookings, waitlists, nextId>>
       ELSE IF HasBooking(bookings, u, c)
       THEN /\ response' = Resp("book", "DuplicateBooking", NoId, NoId, u, c)
            /\ UNCHANGED <<conferences, bookings, waitlists, nextId>>
       ELSE IF conferences[c].available_slots <= 0
       THEN /\ nextId < MaxIds
            /\ nextId' = nextId + 1
            /\ waitlists' = Put(waitlists, nextId',
                                [UserID |-> u, Conference |-> c, timestamp |-> now])
            /\ conferences' = [conferences EXCEPT
                                 ![c].waitlist = Append(@, nextId')]
            /\ response' = Resp("book", "WaitlistId", NoId, nextId', u, c)
            /\ UNCHANGED bookings
       ELSE /\ nextId < MaxIds
            /\ nextId' = nextId + 1
            /\ bookings' = Put(bookings, nextId', [UserID |-> u, Conference |-> c])
            /\ conferences' = [conferences EXCEPT ![c].available_slots = @ - 1]
            /\ response' = Resp("book", "BookingId", NoId, nextId', u, c)
            /\ UNCHANGED waitlists
    /\ UNCHANGED <<users, now, hist, threads>>

\* confirm_waitlist_booking without the slot test of lines 185-186
ConfirmWaitlistNoSlotTest(w) ==
    /\ IF w \notin DOMAIN waitlists
       THEN /\ response' = Resp("confirm", "NotFound", w, NoId, "", "")
            /\ UNCHANGED <<conferences, bookings, waitlists, nextId>>
       ELSE
        LET entry == waitlists[w]
            c == entry.Conference
        IN
        IF PastWindow(now, entry)
        THEN IF ~InList(conferences[c].waitlist, w)
             THEN /\ response' = Resp("confirm", "ValueError", w, NoId, "", "")
                  /\ UNCHANGED <<conferences, bookings, waitlists, nextId>>
             ELSE /\ conferences' = [conferences EXCEPT ![c].waitlist =
                                        Append(ListRemove(@, w), w)]
                  /\ response' = Resp("confirm", "ConfirmationExpired", w, NoId, "", "")
                  /\ UNCHANGED <<bookings, waitlists, nextId>>
        ELSE /\ nextId < MaxIds
             /\ nextId' = nextId + 1
             /\ bookings' = Put(bookings, nextId',
                                [UserID |-> entry.UserID, Conference |-> c])
             /\ conferences' = [conferences EXCEPT ![c].available_slots = @ - 1]
             /\ waitlists' = Del(waitlists, w)
             /\ response' = Resp("confirm", "BookingId", w, nextId', "", "")
    /\ UNCHANGED <<users, now, hist, threads>>

\* confirm_waitlist_booking with a re-queue that gives the entry a fresh
\* timestamp
ConfirmWaitlistRefresh(w) ==
    /\ IF w \notin DOMAIN waitlists
       THEN /\ response' = Resp("confirm", "NotFound", w, NoId, "", "")
            /\ UNCHANGED <<conferences, bookings, waitlists, nextId>>
       ELSE
        LET entry == waitlists[w]
            c == entry.Conference
        IN
        IF conferences[c].available_slots <= 0
        THEN /\ response' = Resp("confirm", "NoSlotsAvailable", w, NoId, "", "")
             /\ UNCHANGED <<conferences, bookings, waitlists, nextId>>
        ELSE IF PastWindow(now, entry)
        THEN IF ~InList(conferences[c].waitlist, w)
             THEN /\ response' = Resp("confirm", "ValueError", w, NoId, "", "")
                  /\ UNCHANGED <<conferences, bookings, waitlists, nextId>>
             ELSE /\ conferences' = [conferences EXCEPT ![c].waitlist =
                                        Append(ListRemove(@, w), w)]
                  /\ waitlists' = [waitlists EXCEPT ![w].timestamp = now]
                  /\ response' = Resp("confirm", "ConfirmationExpired", w, NoId, "", "")
                  /\ UNCHANGED <<bookings, nextId>>
        ELSE /\ nextId < MaxIds
             /\ nextId' = nextId + 1
             /\ bookings' = Put(bookings, nextId',
                                [UserID |-> entry.UserID, Conference |-> c])
             /\ conferences' = [conferences EXCEPT ![c].available_slots = @ - 1]
             /\ waitlists' = Del(waitlists, w)
             /\ response' = Resp("confirm", "BookingId", w, nextId', "", "")
    /\ UNCHANGED <<users, now, hist, threads>>

\* confirm_waitlist_booking, run without interruption.  The conference of
\* a waitlist entry always exists (nothing deletes conferences), so the
\* "Conference not found" return of line 182 has no input.
ConfirmWaitlist(w) ==
    /\ IF w \notin DOMAIN waitlists
       THEN /\ response' = Resp("confirm", "NotFound", w, NoId, "", "")
            /\ UNCHANGED <<conferences, bookings, waitlists, nextId>>
       ELSE
        LET entry == waitlists[w]
            c == entry.Conference
        IN
        IF conferences[c].available_slots <= 0
        THEN /\ response' = Resp("confirm", "NoSlotsAvailable", w, NoId, "", "")
             /\ UNCHANGED <<conferences, bookings, waitlists, nextId>>
        ELSE IF PastWindow(now, entry)
        THEN \* list.remove raises ValueError when w is not in the list
             IF ~InList(conferences[c].waitlist, w)
             THEN /\ response' = Resp("confirm", "ValueError", w, NoId, "", "")
                  /\ UNCHANGED <<conferences, bookings, waitlists, nextId>>
             ELSE /\ conferences' = [conferences EXCEPT ![c].waitlist =
                                        Append(ListRemove(@, w), w)]
                  /\ response' = Resp("confirm", "ConfirmationExpired", w, NoId, "", "")
                  /\ UNCHANGED <<bookings, waitlists, nextId>>
        ELSE /\ nextId < MaxIds
             /\ nextId' = nextId + 1
             /\ bookings' = Put(bookings, nextId',
                                [UserID |-> entry.UserID, Conference |-> c])
             /\ conferences' = [conferences EXCEPT ![c].available_slots = @ - 1]
             /\ waitlists' = Del(waitlists, w)
             /\ response' = Resp("confirm", "BookingId", w, nextId', "", "")
    /\ UNCHANGED <<users, now, hist, threads>>

\* cancel_booking.  Line 268 hands process_waitlist the conference dict,
\* not its name; when process_waitlist raises, the request ends there
\* (HTTP 500) with the increment of line 265 already made.  Falling off
\* the end of the function (no booking, no waitlist entry) returns None.
CancelBooking(id) ==
    /\ id \in DOMAIN bookings =>
          conferences[bookings[id].Conference].available_slots < MaxSlots
    /\ IF id \in DOMAIN bookings
       THEN
        LET c == bookings[id].Conference
            inc == [conferences EXCEPT ![c].available_slots = @ + 1]
            st == [conferences |-> inc, bookings |-> bookings,
                   waitlists |-> waitlists, nextId |-> nextId]
            pw == IF inc[c].waitlist # <<>>
                  THEN ProcessWaitlist(DictValue(c), st, now)
                  ELSE [raised |-> FALSE, st |-> st]
        IN
        IF pw.raised
        THEN /\ conferences' = pw.st.conferences
             /\ bookings' = pw.st.bookings
             /\ waitlists' = pw.st.waitlists
             /\ nextId' = pw.st.nextId
             /\ response' = Resp("cancel", "TypeError", id, NoId, "", "")
             /\ UNCHANGED cancelled
        ELSE /\ conferences' = pw.st.conferences
             /\ bookings' = Del(pw.st.bookings, id)
             /\ waitlists' = pw.st.waitlists
             /\ nextId' = pw.st.nextId
             /\ response' = Resp("cancel", "Cancelled", id, NoId, "", "")
             /\ cancelled' = cancelled \cup {id}
       ELSE IF id \in DOMAIN waitlists
       THEN /\ waitlists' = Del(waitlists, id)
            /\ response' = Resp("cancel", "RemovedFromWaitlist", id, NoId, "", "")
            /\ cancelled' = cancelled \cup {id}
            /\ UNCHANGED <<conferences, bookings, nextId>>
       ELSE /\ response' = Resp("cancel", "None", id, NoId, "", "")
            /\ UNCHANGED <<conferences, bookings, waitlists, nextId, cancelled>>
    /\ UNCHANGED <<users, now, capacity, threads>>

\* booking_status with the waitlist branch of lines 292-298 reporting the
\* status of the branch above it
GetStatusConfirmedOnly(id) ==
    /\ response' =
         IF id \in DOMAIN bookings
         THEN Resp("status", "Confirmed", id, NoId,
                   bookings[id].UserID, bookings[id].Conference)
         ELSE IF id \in DOMAIN waitlists
         THEN Resp("status", "Confirmed", id, NoId,
                   waitlists[id].UserID, waitlists[id].Conference)
         ELSE Resp("status", "NotFound", id, NoId, "", "")
    /\ UNCHANGED <<stores, now, nextId, hist, threads>>

\* booking_status
GetStatus(id) ==
    /\ response' =
         IF id \in DOMAIN bookings
         THEN Resp("status", "Confirmed", id, NoId,
                   bookings[id].UserID, bookings[id].Conference)
         ELSE IF id \in DOMAIN waitlists
         THEN Resp("status", "InWaitlist", id, NoId,
                   waitlists[id].UserID, waitlists[id].Conference)
         ELSE Resp("status", "NotFound", id, NoId, "", "")
    /\ UNCHANGED <<stores, now, nextId, hist, threads>>

\* datetime.utcnow() advances between requests
Tick ==
    /\ now < MaxNow
    /\ now' = now + 1
    /\ UNCHANGED <<stores, nextId, response, hist, threads>>

Next ==
    \/ \E u \in UserIds : RegisterUser(u)
    \/ \E c \in ConfNames, n \in 0..MaxCap : RegisterConference(c, n)
    \/ \E u \in UserIds, c \in ConfNames : BookConference(u, c)
    \/ \E w \in Ids : ConfirmWaitlist(w)
    \/ \E id \in Ids : CancelBooking(id)
    \/ \E id \in Ids : GetStatus(id)
    \/ Tick

Spec == Init /\ [][Next]_vars

\* ------------------------------------------------ interleaved requests
\* book_conference and confirm_waitlist_booking on worker thread t, one
\* action per statement group; pc[t] names the source line the thread is
\* at.  `x -= 1` on a dict item is a load and a store (BINARY_SUBSCR ...
\* STORE_SUBSCR): whether a thread switch falls between them depends on
\* the interpreter, so both orders are behaviours of the model.
Idle(t) == pc[t] = "idle"
Goto(t, line) == pc' = [pc EXCEPT ![t] = line]
Return(t) == /\ pc' = [pc EXCEPT ![t] = "idle"]
             /\ loc' = [loc EXCEPT ![t] = NoLoc]

\* lines 120-138: the lookups and the scan of bookings
BookBegin(t, u, c) ==
    /\ Idle(t)
    /\ IF c \notin DOMAIN conferences
       THEN /\ response' = Resp("book", "ConferenceNotFound", NoId, NoId, u, c)
            /\ Return(t)
       ELSE IF u \notin users
       THEN /\ response' = Resp("book", "UserNotFound", NoId, NoId, u, c)
            /\ Return(t)
       ELSE IF HasBooking(bookings, u, c)
       THEN /\ response' = Resp("book", "DuplicateBooking", NoId, NoId, u, c)
            /\ Return(t)
       ELSE /\ Goto(t, "b141")
            /\ loc' = [loc EXCEPT ![t] = [NoLoc EXCEPT !.UserID = u, !.Conference = c]]
            /\ UNCHANGED response
    /\ UNCHANGED <<stores, now, nextId, hist>>

\* lines 141-149: the slot test, and the waitlist branch
BookCheck(t) ==
    /\ pc[t] = "b141"
    /\ LET u == loc[t].UserID
           c == loc[t].Conference
       IN
       IF conferences[c].available_slots <= 0
       THEN /\ nextId < MaxIds
            /\ nextId' = nextId + 1
            /\ waitlists' = Put(waitlists, nextId',
                                [UserID |-> u, Conference |-> c, timestamp |-> now])
            /\ conferences' = [conferences EXCEPT
                                 ![c].waitlist = Append(@, nextId')]
            /\ response' = Resp("book", "WaitlistId", NoId, nextId', u, c)
            /\ Return(t)
       ELSE /\ Goto(t, "b157")
            /\ UNCHANGED <<conferences, waitlists, nextId, response, loc>>
    /\ UNCHANGED <<users, bookings, now, hist>>

\* lines 153-162: bookings[booking_id] = {...}
BookInsert(t) ==
    /\ pc[t] = "b157"
    /\ nextId < MaxIds
    /\ nextId' = nextId + 1
    /\ bookings' = Put(bookings, nextId',
                       [UserID |-> loc[t].UserID, Conference |-> loc[t].Conference])
    /\ loc' = [loc EXCEPT ![t].new = nextId']
    /\ Goto(t, "b165")
    /\ UNCHANGED <<users, conferences, waitlists, now, response, hist>>

\* line 165, the load of conferences[name]["available_slots"]
BookLoad(t) ==
    /\ pc[t] = "b165"
    /\ loc' = [loc EXCEPT ![t].slots = conferences[loc[t].Conference].available_slots]
    /\ Goto(t, "b165s")
    /\ UNCHANGED <<stores, now, nextId, response, hist>>

\* line 165, the store of the decremented value; line 167
BookStore(t) ==
    /\ pc[t] = "b165s"
    /\ conferences' = [conferences EXCEPT
                         ![loc[t].Conference].available_slots = loc[t].slots - 1]
    /\ response' = Resp("book", "BookingId", NoId, loc[t].new,
                        loc[t].UserID, loc[t].Conference)
    /\ Return(t)
    /\ UNCHANGED <<users, bookings, waitlists, now, nextId, hist>>

\* lines 171-193: the lookups, the slot test, the window test and re-queue
ConfirmBegin(t, w) ==
    /\ Idle(t)
    /\ IF w \notin DOMAIN waitlists
       THEN /\ response' = Resp("confirm", "NotFound", w, NoId, "", "")
            /\ Return(t)
            /\ UNCHANGED conferences
       ELSE
        LET entry == waitlists[w]
            c == entry.Conference
        IN
        IF conferences[c].available_slots <= 0
        THEN /\ response' = Resp("confirm", "NoSlotsAvailable", w, NoId, "", "")
             /\ Return(t)
             /\ UNCHANGED conferences
        ELSE IF PastWindow(now, entry)
        THEN IF ~InList(conferences[c].waitlist, w)
             THEN /\ response' = Resp("confirm", "ValueError", w, NoId, "", "")
                  /\ Return(t)
                  /\ UNCHANGED conferences
             ELSE /\ conferences' = [conferences EXCEPT ![c].waitlist =
                                        Append(ListRemove(@, w), w)]
                  /\ response' = Resp("confirm", "ConfirmationExpired", w, NoId, "", "")
                  /\ Return(t)
        ELSE /\ Goto(t, "c197")
             /\ loc' = [loc EXCEPT ![t] =
                          [NoLoc EXCEPT !.id = w, !.UserID = entry.UserID,
                                        !.Conference = c]]
             /\ UNCHANGED <<conferences, response>>
    /\ UNCHANGED <<users, bookings, waitlists, now, nextId, hist>>

\* lines 196-202: bookings[booking_id] = {...}
ConfirmInsert(t) ==
    /\ pc[t] = "c197"
    /\ nextId < MaxIds
    /\ nextId' = nextId + 1
    /\ bookings' = Put(bookings, nextId',
                       [UserID |-> loc[t].UserID, Conference |-> loc[t].Conference])
    /\ loc' = [loc EXCEPT ![t].new = nextId']
    /\ Goto(t, "c203")
    /\ UNCHANGED <<users, conferences, waitlists, now, response, hist>>

\* line 203, the load
ConfirmLoad(t) ==
    /\ pc[t] = "c203"
    /\ loc' = [loc EXCEPT ![t].slots = conferences[loc[t].Conference].available_slots]
    /\ Goto(t, "c203s")
    /\ UNCHANGED <<stores, now, nextId, response, hist>>

\* line 203, the store
ConfirmStore(t) ==
    /\ pc[t] = "c203s"
    /\ conferences' = [conferences EXCEPT
                         ![loc[t].Conference].available_slots = loc[t].slots - 1]
    /\ Goto(t, "c206")
    /\ UNCHANGED <<users, bookings, waitlists, now, nextId, response, hist, loc>>

\* lines 206-208: waitlists.pop(waitlist_id) raises KeyError when another
\* request has removed the entry since line 174
ConfirmPop(t) ==
    /\ pc[t] = "c206"
    /\ IF loc[t].id \in DOMAIN waitlists
       THEN /\ waitlists' = Del(waitlists, loc[t].id)
            /\ response' = Resp("confirm", "BookingId", loc[t].id, loc[t].new, "", "")
       ELSE /\ response' = Resp("confirm", "KeyError", loc[t].id, NoId, "", "")
            /\ UNCHANGED waitlists
    /\ Return(t)
    /\ UNCHANGED <<users, conferences, bookings, now, nextId, hist>>

\* The interleaved runs start once registration is over: every user is
\* registered and the first conference is, with any capacity (a state
\* Spec reaches by RegisterUser and RegisterConference alone).  They take
\* place within one clock unit (no Tick).
InitConc ==
    /\ users = UserIds
    /\ \E n \in 1..MaxCap :
          /\ conferences = Put(<<>>, "c1", [available_slots |-> n, waitlist |-> <<>>])
          /\ capacity = Put(<<>>, "c1", n)
    /\ bookings = <<>>
    /\ waitlists = <<>>
    /\ now = 0
    /\ nextId = 0
    /\ response = Resp("none", "none", NoId, NoId, "", "")
    /\ cancelled = {}
    /\ pc = [t \in Threads |-> "idle"]
    /\ loc = [t \in Threads |-> NoLoc]

NextConc ==
    \/ \E id \in Ids : CancelBooking(id)
    \/ \E t \in Threads, u \in UserIds, c \in ConfNames : BookBegin(t, u, c)
    \/ \E t \in Threads : BookCheck(t)
    \/ \E t \in Threads : BookInsert(t)
    \/ \E t \in Threads : BookLoad(t)
    \/ \E t \in Threads : BookStore(t)
    \/ \E t \in Threads, w \in Ids : ConfirmBegin(t, w)
    \/ \E t \in Threads : ConfirmInsert(t)
    \/ \E t \in Threads : ConfirmLoad(t)
    \/ \E t \in Threads : ConfirmStore(t)
    \/ \E t \in Threads : ConfirmPop(t)

SpecConc == InitConc /\ [][NextConc]_vars

\* ------------------------------------- process_waitlist, one pass at a time
\* process_waitlist(name) run on its own, one iteration of the while loop
\* of lines 221-249 per step.  It starts in the states a conference of
\* capacity 1 can be in when the call is made: user A holds booking 1,
\* ids 2..k+1 were issued to waitlisted requests of user B in clock order
\* and all stand in the queue (in any order: expired confirmations move
\* ids to the tail), some of them cancelled since (orphans), and
\* available_slots is whatever the cancel requests so far have made it.
\* `now` is read once (line 217) and does not move during the call.
QueueOrders(k) ==
    {q \in [1..k -> 2..(k + 1)] : \A i, j \in 1..k : q[i] = q[j] => i = j}

InitPW ==
    /\ users = UserIds
    /\ capacity = Put(<<>>, "c1", 1)
    /\ bookings = Put(<<>>, 1, [UserID |-> "A", Conference |-> "c1"])
    /\ now \in 0..MaxNow
    /\ \E k \in 0..MaxQueue, n \in 0..MaxSlots :
          /\ nextId = k + 1
          /\ \E q \in QueueOrders(k) :
                conferences = Put(<<>>, "c1", [available_slots |-> n, waitlist |-> q])
          /\ \E live \in SUBSET (2..(k + 1)) :
                /\ cancelled = (2..(k + 1)) \ live
                /\ \E ts \in [live -> 0..now] :
                      /\ \A v, w \in live : v < w => ts[v] <= ts[w]
                      /\ waitlists = [w \in live |->
                                        [UserID |-> "B", Conference |-> "c1",
                                         timestamp |-> ts[w]]]
    /\ response = Resp("none", "none", NoId, NoId, "", "")
    /\ pc = [t \in Threads |-> IF t = "t1" THEN "w221" ELSE "idle"]
    /\ loc = [t \in Threads |->
                IF t = "t1" THEN [NoLoc EXCEPT !.Conference = "c1"] ELSE NoLoc]

\* line 221 holds and the test of lines 226-227 passes
Promotable(w, t) == w \in DOMAIN waitlists /\ PastWindow(t, waitlists[w])

\* the else branch of lines 244-249 without its break
RequeueHeadNoBreak(t) ==
    /\ pc[t] = "w221"
    /\ LET c == loc[t].Conference
           conf == conferences[c]
       IN
       /\ conf.available_slots > 0 /\ conf.waitlist # <<>>
       /\ ~Promotable(Head(conf.waitlist), now)
       /\ conferences' = [conferences EXCEPT ![c].waitlist =
                             Append(Tail(conf.waitlist), Head(conf.waitlist))]
       /\ response' = Resp("process_waitlist", "Requeued",
                           Head(conf.waitlist), NoId, "", c)
    /\ UNCHANGED <<users, bookings, waitlists, now, nextId, hist, threads>>

\* lines 221-243: pop the head and turn it into a booking
PromoteEntry(t) ==
    /\ pc[t] = "w221"
    /\ LET c == loc[t].Conference
           conf == conferences[c]
           waitlist_id == Head(conf.waitlist)
       IN
       /\ conf.available_slots > 0 /\ conf.waitlist # <<>>
       /\ Promotable(waitlist_id, now)
       /\ nextId' = nextId + 1
       /\ bookings' = Put(bookings, nextId',
                          [UserID |-> waitlists[waitlist_id].UserID,
                           Conference |-> c])
       /\ conferences' = [conferences EXCEPT ![c] =
                             [available_slots |-> conf.available_slots - 1,
                              waitlist |-> Tail(conf.waitlist)]]
       /\ waitlists' = Del(waitlists, waitlist_id)
       /\ response' = Resp("process_waitlist", "Promoted", waitlist_id, nextId',
                           waitlists[waitlist_id].UserID, c)
    /\ UNCHANGED <<users, now, hist, threads>>

\* lines 221-225, 244-249: pop the head, append it again and break
RequeueHead(t) ==
    /\ pc[t] = "w221"
    /\ LET c == loc[t].Conference
           conf == conferences[c]
       IN
       /\ conf.available_slots > 0 /\ conf.waitlist # <<>>
       /\ ~Promotable(Head(conf.waitlist), now)
       /\ conferences' = [conferences EXCEPT ![c].waitlist =
                             Append(Tail(conf.waitlist), Head(conf.waitlist))]
       /\ response' = Resp("process_waitlist", "Requeued",
                           Head(conf.waitlist), NoId, "", c)
    /\ Return(t)
    /\ UNCHANGED <<users, bookings, waitlists, now, nextId, hist>>

\* line 221: the while test fails and the function returns
LoopExit(t) ==
    /\ pc[t] = "w221"
    /\ LET conf == conferences[loc[t].Conference] IN
       ~(conf.available_slots > 0 /\ conf.waitlist # <<>>)
    /\ Return(t)
    /\ UNCHANGED <<stores, now, nextId, response, hist>>

NextPW ==
    \/ \E t \in Threads : PromoteEntry(t)
    \/ \E t \in Threads : RequeueHead(t)
    \/ \E t \in Threads : LoopExit(t)

\* the thread serving the request keeps running
SpecPW == InitPW /\ [][NextPW]_vars /\ WF_vars(NextPW)

\* ---------------------------------------------------------------- claims
BookingsOf(bks, c) == {b \in DOMAIN bks : bks[b].Conference = c}
Slots(c) == conferences[c].available_slots
Queue(c) == conferences[c].waitlist

\* C1 (conservation): in every reachable state, for every conference c,
\* available_slots(c) plus the number of active bookings for c equals the
\* capacity c was registered with.
C1_Conservation ==
    \A c \in DOMAIN conferences :
        Slots(c) + Cardinality(BookingsOf(bookings, c)) = capacity[c]

\* C2 (no duplicate booking): in every reachable state at most one active
\* booking has a given (UserID, Conference) pair.
C2_NoDuplicateBooking ==
    \A b1, b2 \in DOMAIN bookings :
        (bookings[b1].UserID = bookings[b2].UserID
            /\ bookings[b1].Conference = bookings[b2].Conference) => b1 = b2

\* C3 (no lost update): with book_conference / confirm_waitlist_booking
\* requests interleaved, the slot test and the decrement act as one step,
\* so that available_slots never goes below 0.  (cancel_booking only adds
\* to available_slots, and the uninterrupted requests of Spec keep it at 0
\* or above: a negative value is two decrements on one observed slot.)
C3_NoLostUpdate ==
    \A c \in DOMAIN conferences : Slots(c) >= 0

\* C4 (cancel of an active booking always succeeds): a cancel_booking call
\* on the id of an active booking removes the booking, returns Cancelled,
\* and raises available_slots by one for the freed slot (less one for each
\* booking the promotion that follows creates).
C4_CancelActiveSucceeds ==
    [][\A id \in Ids :
          (id \in DOMAIN bookings /\ CancelBooking(id)) =>
              LET c == bookings[id].Conference IN
              /\ id \notin DOMAIN bookings'
              /\ response'.outcome = "Cancelled"
              /\ conferences'[c].available_slots + (nextId' - nextId) = Slots(c) + 1
      ]_vars

\* C5 (promotion on cancellation): capacity 1, A holds the booking, B's
\* entry is the whole queue and is eligible for promotion (older than the
\* window, the test of process_waitlist); after cancel_booking on A's
\* booking B holds a booking, B's entry and A's booking are gone, and
\* available_slots is 0.
C5_PromotionOnCancel ==
    [][\A a \in Ids :
          (/\ a \in DOMAIN bookings
           /\ capacity[bookings[a].Conference] = 1
           /\ Slots(bookings[a].Conference) = 0
           /\ Len(Queue(bookings[a].Conference)) = 1
           /\ Queue(bookings[a].Conference)[1] \in DOMAIN waitlists
           /\ waitlists[Queue(bookings[a].Conference)[1]].UserID # bookings[a].UserID
           /\ PastWindow(now, waitlists[Queue(bookings[a].Conference)[1]])
           /\ CancelBooking(a)) =>
              LET c == bookings[a].Conference
                  w == Queue(c)[1]
              IN
              /\ HasBooking(bookings', waitlists[w].UserID, c)
              /\ w \notin DOMAIN waitlists'
              /\ a \notin DOMAIN bookings'
              /\ conferences'[c].available_slots = 0
      ]_vars

\* C6 (repeated cancellation is rejected): cancel_booking on an id that is
\* neither an active booking nor a live waitlist entry returns NotFound and
\* changes no store, and no id is cancelled successfully twice.
C6_NotFoundLeavesStores ==
    [][\A id \in Ids :
          (id \notin DOMAIN bookings /\ id \notin DOMAIN waitlists /\ CancelBooking(id))
              => UNCHANGED stores
      ]_vars

C6_AtMostOneSuccess ==
    [][\A id \in Ids :
          (CancelBooking(id)
             /\ response'.outcome \in {"Cancelled", "RemovedFromWaitlist"})
              => id \notin cancelled
      ]_vars

C6_RepeatedCancelRejected ==
    [][\A id \in Ids :
          /\ (id \notin DOMAIN bookings /\ id \notin DOMAIN waitlists /\ CancelBooking(id))
                => (response'.outcome = "NotFound" /\ UNCHANGED stores)
          /\ (CancelBooking(id)
                 /\ response'.outcome \in {"Cancelled", "RemovedFromWaitlist"})
                => id \notin cancelled
      ]_vars

\* C7 (no partial mutation on error): a request that ends in an error,
\* declared or not, leaves users, conferences, bookings and waitlists as
\* they were.
ErrorValues ==
    {"DuplicateUser", "DuplicateConference", "InvalidSpec", "ConferenceNotFound",
     "UserNotFound", "DuplicateBooking", "NotFound", "NoSlotsAvailable",
     "ConfirmationExpired"}
Unhandled == {"TypeError", "ValueError", "KeyError", "None"}

C7_NoPartialMutation ==
    [][response'.outcome \in ErrorValues \cup Unhandled => UNCHANGED stores]_vars

\* The same for the declared error values alone, and the second half of
\* C7: every error is a declared value, not an exception or a missing
\* return.
C7_DeclaredErrorsLeaveStores ==
    [][response'.outcome \in ErrorValues => UNCHANGED stores]_vars

C7_ErrorsAreValues ==
    response.outcome \notin Unhandled

\* C8 (waitlist ordering): whenever a waitlist entry is turned into a
\* booking, no live entry stands ahead of it in its conference's queue.
Promoted(w) ==
    /\ w \in DOMAIN waitlists
    /\ w \notin DOMAIN waitlists'
    /\ \E b \in DOMAIN bookings' \ DOMAIN bookings :
          /\ bookings'[b].UserID = waitlists[w].UserID
          /\ bookings'[b].Conference = waitlists[w].Conference

LiveAhead(w) ==
    LET q == Queue(waitlists[w].Conference) IN
    \E i, j \in 1..Len(q) :
        i < j /\ q[j] = w /\ q[i] # w /\ q[i] \in DOMAIN waitlists

C8_FifoPromotion ==
    [][\A w \in Ids : Promoted(w) => ~LiveAhead(w)]_vars

\* C9 (second booking request is a duplicate): when book_conference for
\* (u, c) has just returned a booking id or a waitlist id, the next
\* book_conference for (u, c) returns DuplicateBooking and creates neither
\* a booking nor a waitlist entry.
C9_SecondBookIsDuplicate ==
    [][\A u \in UserIds, c \in ConfNames :
          (/\ response.op = "book"
           /\ response.outcome \in {"BookingId", "WaitlistId"}
           /\ response.UserID = u /\ response.Conference = c
           /\ BookConference(u, c)) =>
              /\ response'.outcome = "DuplicateBooking"
              /\ UNCHANGED <<bookings, waitlists>>
      ]_vars

\* C10 (successful confirmation): a confirm_waitlist_booking that returns a
\* booking id lowers available_slots by one, adds one booking for the
\* entry's user and conference, removes the entry from waitlists and
\* leaves its id in no conference's queue.
C10_ConfirmRemovesFromQueue ==
    [][\A w \in Ids :
          (ConfirmWaitlist(w) /\ response'.outcome = "BookingId") =>
              LET c == waitlists[w].Conference IN
              /\ conferences'[c].available_slots = Slots(c) - 1
              /\ DOMAIN bookings' = DOMAIN bookings \cup {response'.new}
              /\ response'.new \notin DOMAIN bookings
              /\ bookings'[response'.new] =
                    [UserID |-> waitlists[w].UserID, Conference |-> c]
              /\ w \notin DOMAIN waitlists'
              /\ \A d \in DOMAIN conferences' : ~InList(conferences'[d].waitlist, w)
      ]_vars

\* C11 (expired confirmation): confirm_waitlist_booking on a live entry
\* older than the window, with available_slots > 0, returns
\* ConfirmationExpired; the entry stays in waitlists with its timestamp,
\* its id is the last element of the conference's queue and occurs there
\* once, the other ids keep their order, and available_slots and bookings
\* are unchanged.
Count(q, x) == Cardinality({i \in 1..Len(q) : q[i] = x})
Others(q, x) == SelectSeq(q, LAMBDA y : y # x)

C11_ExpiredRequeue ==
    [][\A w \in Ids :
          (/\ w \in DOMAIN waitlists
           /\ PastWindow(now, waitlists[w])
           /\ Slots(waitlists[w].Conference) > 0
           /\ ConfirmWaitlist(w)) =>
              LET c == waitlists[w].Conference
                  q == conferences'[c].waitlist
              IN
              /\ response'.outcome = "ConfirmationExpired"
              /\ waitlists' = waitlists
              /\ q # <<>> /\ q[Len(q)] = w
              /\ Count(q, w) = 1
              /\ Others(q, w) = Others(Queue(c), w)
              /\ conferences'[c].available_slots = Slots(c)
              /\ bookings' = bookings
      ]_vars

\* an expired confirmation has moved an entry behind one enqueued after it
C11_Witness ==
    /\ response.op = "confirm"
    /\ response.outcome = "ConfirmationExpired"
    /\ response.id \in DOMAIN waitlists
    /\ LET q == Queue(waitlists[response.id].Conference) IN
       /\ q[Len(q)] = response.id
       /\ \E i \in 1..Len(q) : q[i] > response.id

\* C12 (booking request): book_conference for a registered user and an
\* existing conference, with no booking for the pair: with available_slots
\* > 0 it lowers available_slots by one and adds one booking for the pair,
\* leaving waitlists and the queue alone; with available_slots = 0 it adds
\* one waitlist entry for the pair and appends its id at the queue's tail,
\* leaving available_slots and bookings alone.
C12_BookEffect ==
    [][\A u \in UserIds, c \in ConfNames :
          (/\ u \in users
           /\ c \in DOMAIN conferences
           /\ ~HasBooking(bookings, u, c)
           /\ BookConference(u, c)) =>
              LET id == response'.new IN
              /\ id \notin DOMAIN bookings \cup DOMAIN waitlists
              /\ \A d \in DOMAIN conferences \ {c} : conferences'[d] = conferences[d]
              /\ DOMAIN conferences' = DOMAIN conferences
              /\ IF Slots(c) > 0
                 THEN /\ response'.outcome = "BookingId"
                      /\ conferences'[c].available_slots = Slots(c) - 1
                      /\ bookings' = Put(bookings, id, [UserID |-> u, Conference |-> c])
                      /\ waitlists' = waitlists
                      /\ conferences'[c].waitlist = Queue(c)
                 ELSE /\ Slots(c) = 0
                      /\ response'.outcome = "WaitlistId"
                      /\ DOMAIN waitlists' = DOMAIN waitlists \cup {id}
                      /\ \A x \in DOMAIN waitlists : waitlists'[x] = waitlists[x]
                      /\ waitlists'[id].UserID = u
                      /\ waitlists'[id].Conference = c
                      /\ waitlists'[id].timestamp = now
                      /\ conferences'[c].waitlist = Append(Queue(c), id)
                      /\ conferences'[c].available_slots = Slots(c)
                      /\ bookings' = bookings
      ]_vars

\* a request has been put on the waitlist behind an earlier one
C12_Witness ==
    /\ response.op = "book"
    /\ response.outcome = "WaitlistId"
    /\ LET q == Queue(response.Conference) IN
       Len(q) >= 2 /\ q[Len(q)] = response.new

\* C13 (status query): booking_status changes no store, and answers
\* Confirmed with the booking's user and conference for a booking id,
\* else InWaitlist with the entry's user and conference for a waitlist
\* id, else NotFound; an id that was cancelled or never issued is
\* NotFound, and a waitlist id leaves the waitlist store for good when
\* its entry is promoted, so it is not InWaitlist afterwards.
C13_StatusQuery ==
    [][\A id \in Ids :
          /\ GetStatus(id) =>
                /\ UNCHANGED stores
                /\ response'.op = "status" /\ response'.id = id
                /\ IF id \in DOMAIN bookings
                   THEN /\ response'.outcome = "Confirmed"
                        /\ response'.UserID = bookings[id].UserID
                        /\ response'.Conference = bookings[id].Conference
                   ELSE IF id \in DOMAIN waitlists
                   THEN /\ response'.outcome = "InWaitlist"
                        /\ response'.UserID = waitlists[id].UserID
                        /\ response'.Conference = waitlists[id].Conference
                   ELSE response'.outcome = "NotFound"
                /\ (id \in cancelled \/ id > nextId) =>
                      response'.outcome = "NotFound"
          /\ Promoted(id) => id \notin DOMAIN bookings'
          /\ (id <= nextId /\ id \notin DOMAIN waitlists) =>
                id \notin DOMAIN waitlists'
      ]_vars

\* the status of a promoted waitlist id has been asked for: the id was
\* issued, was never cancelled, and is in neither store
C13_Witness ==
    /\ response.op = "status"
    /\ response.outcome = "NotFound"
    /\ response.id <= nextId
    /\ response.id \notin cancelled
    /\ \E b \in DOMAIN bookings : b > response.id

\* C14 (waitlist/queue consistency): every live waitlist entry's id
\* occurs exactly once in the queue of the entry's conference and in no
\* other queue; no id occurs twice in a queue or in two queues; so the
\* list.remove of the re-queue never fails.
C14_QueueConsistency ==
    /\ \A w \in DOMAIN waitlists :
          /\ waitlists[w].Conference \in DOMAIN conferences
          /\ \A c \in DOMAIN conferences :
                Count(Queue(c), w) = IF c = waitlists[w].Conference THEN 1 ELSE 0
    /\ \A id \in Ids :
          /\ \A c \in DOMAIN conferences : Count(Queue(c), id) <= 1
          /\ \A c, d \in DOMAIN conferences :
                (InList(Queue(c), id) /\ InList(Queue(d), id)) => c = d
    /\ response.outcome # "ValueError"

\* an expired entry has been re-queued in a queue that also holds an
\* orphaned id
C14_Witness ==
    /\ response.outcome = "ConfirmationExpired"
    /\ \E c \in DOMAIN conferences :
          \E i, j \in 1..Len(Queue(c)) :
             /\ Queue(c)[i] = response.id
             /\ Queue(c)[i] \in DOMAIN waitlists
             /\ Queue(c)[j] \notin DOMAIN waitlists

\* The stepwise loop and PromoteLoop compute the same thing: an iteration
\* after which the loop goes on does not change what PromoteLoop makes of
\* the stores, and the step that leaves the loop lands on that result.
PWStores == [conferences |-> conferences, bookings |-> bookings,
             waitlists |-> waitlists, nextId |-> nextId]

PWAgreesWithLoop ==
    [][IF pc'["t1"] = "w221"
       THEN PromoteLoop(PWStores, "c1", now)' = PromoteLoop(PWStores, "c1", now)
       ELSE PWStores' = PromoteLoop(PWStores, "c1", now)
      ]_vars

\* C15 (promotion terminates): the promotion loop ends after finitely
\* many iterations; it ends only with available_slots = 0, or an empty
\* queue, or the popped head not promotable and pushed back to the tail;
\* every iteration after which the loop goes on lowers available_slots
\* and the queue length by one.
C15_PromotionTerminates ==
    /\ <>(\A t \in Threads : pc[t] = "idle")
    /\ [][\A t \in Threads : pc[t] = "w221" =>
             LET c == loc[t].Conference IN
             IF pc'[t] = "w221"
             THEN /\ conferences'[c].available_slots = Slots(c) - 1
                  /\ Len(conferences'[c].waitlist) = Len(Queue(c)) - 1
             ELSE \/ Slots(c) = 0 /\ UNCHANGED stores
                  \/ Queue(c) = <<>> /\ UNCHANGED stores
                  \/ /\ Slots(c) > 0 /\ Queue(c) # <<>>
                     /\ ~Promotable(Head(Queue(c)), now)
                     /\ conferences'[c].waitlist =
                           Append(Tail(Queue(c)), Head(Queue(c)))
                     /\ conferences'[c].available_slots = Slots(c)
                     /\ UNCHANGED <<bookings, waitlists>>
         ]_vars

\* the loop has promoted an entry and then stopped at a head it pushed
\* back, with slots and queue entries left over
C15_Witness ==
    /\ \A t \in Threads : pc[t] = "idle"
    /\ response.op = "process_waitlist"
    /\ response.outcome = "Requeued"
    /\ Slots("c1") > 0
    /\ Len(Queue("c1")) >= 2
    /\ \E b \in DOMAIN bookings : b > 1

\* C16 (create-only registry): add_user with an existing id answers
\* DuplicateUser and add_conference with an existing name answers
\* DuplicateConference, both leaving every store as it was (the
\* conference keeps its available_slots and its queue); the first
\* successful add_conference stores available_slots equal to the given
\* capacity and an empty queue.
C16_CreateOnly ==
    [][/\ \A u \in UserIds :
             (u \in users /\ RegisterUser(u)) =>
                /\ response'.outcome = "DuplicateUser"
                /\ UNCHANGED stores
       /\ \A c \in ConfNames, n \in 1..MaxCap :
             RegisterConference(c, n) =>
                IF c \in DOMAIN conferences
                THEN /\ response'.outcome = "DuplicateConference"
                     /\ UNCHANGED stores
                ELSE /\ response'.outcome = "ok"
                     /\ conferences' =
                           Put(conferences, c,
                               [available_slots |-> n, waitlist |-> <<>>])
                     /\ UNCHANGED <<users, bookings, waitlists>>
      ]_vars

\* a conference whose slots are used up and whose queue is not empty has
\* been registered again
C16_Witness ==
    /\ response.op = "add_conference"
    /\ response.outcome = "DuplicateConference"
    /\ Slots(response.Conference) # capacity[response.Conference]
    /\ Queue(response.Conference) # <<>>

\* C17 (orphans skipped): when the promotion loop pops an id that is in
\* no waitlist entry, it drops the id and goes on with the next queue
\* element: the id is not put back in the queue and the loop does not
\* stop on it.
C17_OrphanSkipped ==
    [][\A t \in Threads :
          LET c == loc[t].Conference IN
          (/\ pc[t] = "w221"
           /\ Slots(c) > 0 /\ Queue(c) # <<>>
           /\ Head(Queue(c)) \notin DOMAIN waitlists) =>
              /\ conferences'[c].waitlist = Tail(Queue(c))
              /\ pc'[t] = "w221"
      ]_vars

\* C17, its consequence: the loop never returns with a slot free and a
\* promotable live entry in the queue behind an orphaned id.
C17_NoBlockedPromotion ==
    (/\ \A t \in Threads : pc[t] = "idle"
     /\ response.op = "process_waitlist") =>
        ~(/\ Slots("c1") > 0
          /\ response.id \notin DOMAIN waitlists
          /\ \E i \in 1..Len(Queue("c1")) : Promotable(Queue("c1")[i], now))

\* C18 (expiry is permanent): a ConfirmationExpired answer is given only
\* to an entry past its window; such an entry stays past its window for
\* as long as it is live (its timestamp is not touched and the clock does
\* not go back); every confirm_waitlist_booking on it answers
\* ConfirmationExpired or NoSlotsAvailable; and it leaves the waitlist
\* store only in a cancel_booking request (where automatic promotion
\* runs too).
ConfirmAnswer(w, outcomes) ==
    /\ response.op = "confirm"
    /\ response.id = w
    /\ response.outcome \in outcomes

C18_ExpiryPermanent ==
    [][\A w \in Ids :
          /\ (ConfirmWaitlist(w) /\ response'.outcome = "ConfirmationExpired") =>
                /\ w \in DOMAIN waitlists
                /\ PastWindow(now, waitlists[w])
                /\ w \in DOMAIN waitlists'
          /\ (w \in DOMAIN waitlists /\ PastWindow(now, waitlists[w])) =>
                /\ w \in DOMAIN waitlists' => PastWindow(now', waitlists'[w])
                /\ ConfirmWaitlist(w) =>
                      response'.outcome \in {"ConfirmationExpired", "NoSlotsAvailable"}
                /\ w \notin DOMAIN waitlists' => \E id \in Ids : CancelBooking(id)
      ]_vars

\* C18 over whole behaviours: after a ConfirmationExpired answer for w no
\* confirm_waitlist_booking(w) ever answers with a booking id.
C18_NeverConfirmedAfterExpiry ==
    \A w \in Ids :
        [](ConfirmAnswer(w, {"ConfirmationExpired"}) =>
             [](/\ ~ConfirmAnswer(w, {"BookingId", "ValueError"})
                /\ (ConfirmAnswer(w, {"NotFound"}) => w \notin DOMAIN waitlists)
                /\ (w \in DOMAIN waitlists => PastWindow(now, waitlists[w]))))

\* an entry that was re-queued on expiry (it stands behind a younger id)
\* has been confirmed again, with no slot left this time
C18_Witness ==
    /\ ConfirmAnswer(response.id, {"NoSlotsAvailable"})
    /\ response.id \in DOMAIN waitlists
    /\ PastWindow(now, waitlists[response.id])
    /\ LET q == Queue(waitlists[response.id].Conference) IN
       \E i, j \in 1..Len(q) : i < j /\ q[j] = response.id /\ q[i] > response.id

\* C19 (slots never negative when requests are atomic): with every
\* request run without interruption, available_slots(c) >= 0 in every
\* state, and every step that lowers available_slots(c) lowers it by one
\* from a value greater than 0.
C19_AtomicSlotsNonNegative ==
    [][\A c \in DOMAIN conferences :
          /\ Slots(c) >= 0
          /\ conferences'[c].available_slots >= 0
          /\ conferences'[c].available_slots < Slots(c) =>
                /\ Slots(c) > 0
                /\ conferences'[c].available_slots = Slots(c) - 1
      ]_vars

\* a confirmation has taken the last slot of a conference
C19_Witness ==
    /\ response.op = "confirm"
    /\ response.outcome = "BookingId"
    /\ \E c \in DOMAIN conferences :
          /\ Slots(c) = 0
          /\ \E b \in BookingsOf(bookings, c) : b = response.new

\* C20 (pending requests are unique): for every user u and conference c
\* there is at most one live waitlist entry for (u, c), and none while u
\* holds a booking for c.
EntriesOf(u, c) ==
    {w \in DOMAIN waitlists :
        waitlists[w].UserID = u /\ waitlists[w].Conference = c}

C20_PendingUnique ==
    \A u \in UserIds, c \in ConfNames :
        /\ Cardinality(EntriesOf(u, c)) <= 1
        /\ HasBooking(bookings, u, c) => EntriesOf(u, c) = {}

\* C20, second half alone
C20_NoEntryWhileBooked ==
    \A u \in UserIds, c \in ConfNames :
        HasBooking(bookings, u, c) => EntriesOf(u, c) = {}

====
